---- MODULE Spec2Model ----
(***************************************************************************)
(* The bearer-token session layer of the film catalog server: the          *)
(* TokenStore (src/main.go:51-99), the requireAuth middleware              *)
(* (src/main.go:198-227) and the login / logout handlers                   *)
(* (src/main.go:256-323), run by concurrent request workers (net/http      *)
(* serves every request on its own goroutine).                             *)
(*                                                                         *)
(* Time is counted in hours.  A header value is a sequence of words and    *)
(* single spaces (no two words adjacent), so that strings.Split is         *)
(* computed and not assumed.                                               *)
(***************************************************************************)
EXTENDS Integers, Sequences, FiniteSets, TLC

\* ------------------------------------------------------------ bounds
MaxTokens == 2
MaxTicks == 2
MaxAdds == 1

\* ------------------------------------------------- program constants
TTL == 24
StatusOK == 200
StatusBadRequest == 400
StatusUnauthorized == 401
StatusMethodNotAllowed == 405
StatusCreated == 201
StatusNoContent == 204
StatusNotFound == 404

\* The clock advances one TTL at a time: a token is looked up at the time
\* it was added, at the instant of its expiry, or later.
TickStep == TTL
MaxTime == MaxTicks * TickStep

Workers == {"w1", "w2"}
NoWorker == "none"

Pool == <<"t1", "t2", "t3", "t4">>
Generable == {Pool[i] : i \in 1..MaxTokens}

\* The user registry (config.yaml / the seeded users table).
Users ==
    << [username |-> "admin", password |-> "admin123"],
       [username |-> "user1", password |-> "password123"],
       [username |-> "demo", password |-> "demo456"] >>

\* ------------------------------------------------------------ inputs
NoBody == [ok |-> FALSE, username |-> "", password |-> ""]

GoodBody == [ok |-> TRUE, username |-> "admin", password |-> "admin123"]

Bodies ==
    { NoBody,
      [ok |-> TRUE, username |-> "", password |-> "admin123"],
      [ok |-> TRUE, username |-> "admin", password |-> ""],
      GoodBody,
      [ok |-> TRUE, username |-> "admin", password |-> "Admin123"] }

AuthHeaders ==
    { <<>>, <<"Basic", " ", "abc">>, <<"Bearer">>, <<"Bearer", " ">>,
      <<"Bearer", " ", " ", "badtoken">> }
        \cup {<<"Bearer", " ", t>> : t \in Generable \cup {"badtoken"}}

\* A film as a request body carries it: ok is whether the JSON decodes.
NoFilm == [ok |-> FALSE, ID |-> 0, Title |-> "", Director |-> "", Year |-> 0]

\* r.URL.Path: the words of the path and the slashes between them.
FilmsPath == <<"/", "api/films">>

\* The path a request for a handler is sent to.
PathOf(kind) ==
    CASE kind = "login" -> <<"/", "api/login">>
      [] kind = "logout" -> <<"/", "api/logout">>
      [] kind = "protected" -> FilmsPath
      [] OTHER -> <<>>

\* kind names the handler the request is meant for, arg is the id argument
\* of a FilmStore method called directly.
Request(kind, method, header, body) ==
    [kind |-> kind, method |-> method, header |-> header, body |-> body,
     path |-> PathOf(kind), film |-> NoFilm, arg |-> 0]

LoginRequests ==
    {Request("login", "POST", <<>>, b) : b \in Bodies}
        \cup {Request("login", m, <<>>, b) :
                  m \in {"GET", "OPTIONS"}, b \in {GoodBody, NoBody}}

LogoutRequests ==
    {Request("logout", "POST", h, NoBody) : h \in AuthHeaders}
        \cup {Request("logout", m, <<"Bearer", " ", Pool[1]>>, NoBody) :
                  m \in {"GET", "OPTIONS"}}

ProtectedRequests ==
    {Request("protected", "GET", h, NoBody) : h \in AuthHeaders}
        \cup {Request("protected", "OPTIONS", h, NoBody) :
                  h \in {<<>>, <<"Bearer", " ", Pool[1]>>, <<"Bearer", " ", "badtoken">>}}

\* A client presents a token that GenerateToken has returned, or a string
\* of its own that GenerateToken never returns.
Presentable(r, known) ==
    \A i \in 1..Len(r.header) : r.header[i] \in Generable => r.header[i] \in known

NoReq == Request("none", "", <<>>, NoBody)

\* ------------------------------------------------------------- state
VARIABLES
    tokens,     \* TokenStore.tokens: token -> expiry time
    mu,         \* TokenStore.mu: [writer, readers]
    now,        \* time.Now()
    crashed,    \* the runtime threw a fatal error: the process is gone
    issued,     \* the tokens GenerateToken has returned so far
    pc,         \* per worker: where its request is
    req,        \* per worker: the request being served
    tok,        \* per worker: the token argument of the TokenStore call
    raced,      \* per worker: its map access in progress overlapped a conflicting one
    out,        \* the response written most recently, with its request
    filmStore   \* FilmStore: [mu, films, nextID]

vars == <<tokens, mu, now, crashed, issued, pc, req, tok, raced, out, filmStore>>

NoHeaders == [h \in {} |-> ""]

NoOut ==
    [req |-> NoReq, headers |-> NoHeaders, status |-> StatusOK, msg |-> "",
     delegated |-> FALSE, token |-> "", validated |-> "none", films |-> <<>>]

\* enableCORS without the Authorization request header allowed.
enableCORSContentTypeOnly ==
    [h \in {"Access-Control-Allow-Origin", "Access-Control-Allow-Methods",
            "Access-Control-Allow-Headers"} |->
        CASE h = "Access-Control-Allow-Origin" -> "*"
          [] h = "Access-Control-Allow-Methods" -> "GET, POST, PUT, DELETE, OPTIONS"
          [] h = "Access-Control-Allow-Headers" -> "Content-Type"]

\* enableCORS(w): the response headers it sets.  Every handler calls it
\* first, and nothing later removes a header.
enableCORS ==
    [h \in {"Access-Control-Allow-Origin", "Access-Control-Allow-Methods",
            "Access-Control-Allow-Headers"} |->
        CASE h = "Access-Control-Allow-Origin" -> "*"
          [] h = "Access-Control-Allow-Methods" -> "GET, POST, PUT, DELETE, OPTIONS"
          [] h = "Access-Control-Allow-Headers" -> "Content-Type, Authorization"]

Response(w, r, status, msg) ==
    [req |-> r, headers |-> enableCORS, status |-> status, msg |-> msg,
     delegated |-> FALSE, token |-> "", validated |-> "none", films |-> <<>>]

\* -------------------------------------------------------- FilmStore
\* The films NewFilmStore adds (Genre, which no code path looks at, is
\* left out).
SampleFilms ==
    << [ID |-> 0, Title |-> "The Shawshank Redemption",
        Director |-> "Frank Darabont", Year |-> 1994],
       [ID |-> 0, Title |-> "The Godfather",
        Director |-> "Francis Ford Coppola", Year |-> 1972],
       [ID |-> 0, Title |-> "The Dark Knight",
        Director |-> "Christopher Nolan", Year |-> 2008],
       [ID |-> 0, Title |-> "Pulp Fiction",
        Director |-> "Quentin Tarantino", Year |-> 1994],
       [ID |-> 0, Title |-> "Forrest Gump",
        Director |-> "Robert Zemeckis", Year |-> 1994] >>

\* The Film a decoded body holds.
FilmOf(b) == [ID |-> b.ID, Title |-> b.Title, Director |-> b.Director, Year |-> b.Year]

\* fs.films[id] = film
Put(films, id, film) ==
    [x \in DOMAIN films \cup {id} |-> IF x = id THEN film ELSE films[x]]

\* A delete that removes nothing.
DropNothing(films, id) == films

\* delete(fs.films, id)
Drop(films, id) == [x \in DOMAIN films \ {id} |-> films[x]]

\* The film stored with the ID its payload carried.
WithPayloadID(film, id) == film

\* updatedFilm.ID = id
WithID(film, id) == [film EXCEPT !.ID = id]

\* An ID taken from the number of films stored.
NewIDFromCount(fs) == Cardinality(DOMAIN fs.films) + 1

\* film.ID = fs.nextID
NewID(fs) == fs.nextID

\* addFilm, updateFilm, deleteFilm, getFilms and getFilm as one step
\* each: what a call does between taking and releasing fs.mu.
addFilm(fs, film) ==
    [store |-> [fs EXCEPT !.films = Put(@, fs.nextID, [film EXCEPT !.ID = NewID(fs)]),
                          !.nextID = @ + 1],
     film |-> [film EXCEPT !.ID = NewID(fs)]]

updateFilm(fs, id, film) ==
    IF id \notin DOMAIN fs.films THEN [store |-> fs, exists |-> FALSE, film |-> film]
    ELSE [store |-> [fs EXCEPT !.films = Put(@, id, WithID(film, id))],
          exists |-> TRUE,
          film |-> WithID(film, id)]

deleteFilm(fs, id) ==
    IF id \notin DOMAIN fs.films THEN [store |-> fs, exists |-> FALSE]
    ELSE [store |-> [fs EXCEPT !.films = Drop(@, id)], exists |-> TRUE]

getFilms(fs) == fs.films

getFilm(fs, id) ==
    IF id \in DOMAIN fs.films THEN [exists |-> TRUE, films |-> Put(<<>>, id, fs.films[id])]
    ELSE [exists |-> FALSE, films |-> <<>>]

RECURSIVE AddAll(_, _, _)
AddAll(fs, films, i) ==
    IF i > Len(films) THEN fs ELSE AddAll(addFilm(fs, films[i]).store, films, i + 1)

NewFilmStore ==
    AddAll([mu |-> [writer |-> NoWorker, readers |-> {}], films |-> <<>>, nextID |-> 1],
           SampleFilms, 1)

\* ---------------------------------------------------- film handlers
Numerals == <<"1", "2", "3", "4", "5", "6", "7", "8", "9">>

\* strconv.Atoi on the words a path can end in.
Atoi(s) ==
    IF \E n \in DOMAIN Numerals : Numerals[n] = s
        THEN [err |-> FALSE, n |-> CHOOSE n \in DOMAIN Numerals : Numerals[n] = s]
        ELSE [err |-> TRUE, n |-> 0]

\* strings.HasPrefix(path, "/api/films/")
HasFilmsPrefix(path) == Len(path) >= 3 /\ SubSeq(path, 1, 3) = FilmsPath \o <<"/">>

\* strings.TrimPrefix(path, "/api/films/")
TrimFilmsPrefix(path) == IF Len(path) = 4 THEN path[4] ELSE ""

Result(fs, status, msg, films) ==
    [store |-> fs, status |-> status, msg |-> msg, films |-> films]

MissingFields(film) == film.Title = "" \/ film.Director = "" \/ film.Year = 0

getFilmsHandler(r, fs) ==
    IF r.method # "GET" THEN Result(fs, StatusMethodNotAllowed, "Method not allowed", <<>>)
    ELSE Result(fs, StatusOK, "", getFilms(fs))

addFilmHandler(r, fs) ==
    IF r.method # "POST" THEN
        Result(fs, StatusMethodNotAllowed, "Method not allowed", <<>>)
    ELSE IF ~r.film.ok THEN Result(fs, StatusBadRequest, "Invalid JSON", <<>>)
    ELSE IF MissingFields(r.film) THEN
        Result(fs, StatusBadRequest, "Title, director, and year are required", <<>>)
    ELSE
        LET added == addFilm(fs, FilmOf(r.film))
        IN  Result(added.store, StatusCreated, "", Put(<<>>, added.film.ID, added.film))

updateFilmHandler(r, fs) ==
    LET id == Atoi(TrimFilmsPrefix(r.path))
    IN  IF r.method # "PUT" THEN
            Result(fs, StatusMethodNotAllowed, "Method not allowed", <<>>)
        ELSE IF id.err THEN Result(fs, StatusBadRequest, "Invalid film ID", <<>>)
        ELSE IF ~r.film.ok THEN Result(fs, StatusBadRequest, "Invalid JSON", <<>>)
        ELSE IF MissingFields(r.film) THEN
            Result(fs, StatusBadRequest, "Title, director, and year are required", <<>>)
        ELSE
            LET updated == updateFilm(fs, id.n, FilmOf(r.film))
            IN  IF ~updated.exists THEN Result(fs, StatusNotFound, "Film not found", <<>>)
                ELSE Result(updated.store, StatusOK, "", Put(<<>>, id.n, updated.film))

deleteFilmHandler(r, fs) ==
    LET id == Atoi(TrimFilmsPrefix(r.path))
    IN  IF r.method # "DELETE" THEN
            Result(fs, StatusMethodNotAllowed, "Method not allowed", <<>>)
        ELSE IF id.err THEN Result(fs, StatusBadRequest, "Invalid film ID", <<>>)
        ELSE IF ~deleteFilm(fs, id.n).exists THEN
            Result(fs, StatusNotFound, "Film not found", <<>>)
        ELSE Result(deleteFilm(fs, id.n).store, StatusNoContent, "", <<>>)

filmsHandler(r, fs) ==
    IF r.path = FilmsPath THEN
        CASE r.method = "GET" -> getFilmsHandler(r, fs)
          [] r.method = "POST" -> addFilmHandler(r, fs)
          [] OTHER -> Result(fs, StatusMethodNotAllowed, "Method not allowed", <<>>)
    ELSE IF HasFilmsPrefix(r.path) THEN
        CASE r.method = "PUT" -> updateFilmHandler(r, fs)
          [] r.method = "DELETE" -> deleteFilmHandler(r, fs)
          [] OTHER -> Result(fs, StatusMethodNotAllowed, "Method not allowed", <<>>)
    ELSE Result(fs, StatusNotFound, "Not found", <<>>)

staticHandler(r, fs) ==
    IF r.path = <<"/">> THEN Result(fs, StatusOK, "index.html", <<>>)
    ELSE Result(fs, StatusNotFound, "Not found", <<>>)

\* The handler a request is routed to, run on the FilmStore as it is: the
\* wrapped film handler, the static handler, or the caller of a
\* TokenStore method called directly, which answers nothing more.
Handled(r) ==
    CASE r.kind \in {"protected", "films"} -> filmsHandler(r, filmStore)
      [] r.kind = "static" -> staticHandler(r, filmStore)
      [] OTHER -> Result(filmStore, StatusOK, "", <<>>)

\* next(w, r): the response is the handler's.
Delegated(w, r) ==
    [Response(w, r, Handled(r).status, Handled(r).msg) EXCEPT
        !.delegated = TRUE, !.films = Handled(r).films]

\* ------------------------------------------------- header processing
\* strings.Split(h, " "): the words between the spaces, "" between two
\* spaces and after a trailing one.
RECURSIVE SplitFrom(_, _, _)
SplitFrom(h, i, cur) ==
    IF i > Len(h) THEN <<cur>>
    ELSE IF h[i] = " " THEN <<cur>> \o SplitFrom(h, i + 1, "")
    ELSE SplitFrom(h, i + 1, h[i])

Split(h) == SplitFrom(h, 1, "")

\* The header rule without the check of the scheme.
HeaderCheckAnyScheme(h) ==
    IF h = <<>> THEN
        [pass |-> FALSE, msg |-> "Authorization header required", token |-> ""]
    ELSE IF Len(Split(h)) # 2 THEN
        [pass |-> FALSE, msg |-> "Invalid authorization header format", token |-> ""]
    ELSE
        [pass |-> TRUE, msg |-> "", token |-> Split(h)[2]]

\* The format of the header checked before its presence.
HeaderCheckFormatFirst(h) ==
    IF Len(Split(h)) # 2 \/ Split(h)[1] # "Bearer" THEN
        [pass |-> FALSE, msg |-> "Invalid authorization header format", token |-> ""]
    ELSE IF h = <<>> THEN
        [pass |-> FALSE, msg |-> "Authorization header required", token |-> ""]
    ELSE
        [pass |-> TRUE, msg |-> "", token |-> Split(h)[2]]

\* The header rule shared by requireAuth and logoutHandler.
HeaderCheck(h) ==
    IF h = <<>> THEN
        [pass |-> FALSE, msg |-> "Authorization header required", token |-> ""]
    ELSE IF Len(Split(h)) # 2 \/ Split(h)[1] # "Bearer" THEN
        [pass |-> FALSE, msg |-> "Invalid authorization header format", token |-> ""]
    ELSE
        [pass |-> TRUE, msg |-> "", token |-> Split(h)[2]]

\* ------------------------------------------------ credential check
\* strings.ToLower on the strings the inputs hold.
Fold(x) ==
    CASE x \in {"Admin", "ADMIN"} -> "admin"
      [] x \in {"Admin123", "ADMIN123"} -> "admin123"
      [] x = "Password123" -> "password123"
      [] OTHER -> x

\* A comparison that ignores case (strings.EqualFold).
ValidateUserFoldsCase(username, password) ==
    \E i \in 1..Len(Users) :
        /\ Fold(Users[i].username) = Fold(username)
        /\ Fold(Users[i].password) = Fold(password)

ValidateUser(username, password) ==
    \E i \in 1..Len(Users) :
        Users[i].username = username /\ Users[i].password = password

\* UserService.GetUserByUsername: the first row of the users table with
\* this username (the table holds the seeded users; the column is
\* compared byte by byte).
GetUserByUsername(username) ==
    LET rows == {i \in 1..Len(Users) : Users[i].username = username}
    IN  IF rows = {} THEN [found |-> FALSE, user |-> Users[1]]
        ELSE [found |-> TRUE,
              user |-> Users[CHOOSE i \in rows : \A j \in rows : i <= j]]

\* UserService.ValidateUser
UserServiceValidateUser(username, password) ==
    IF ~GetUserByUsername(username).found THEN FALSE
    ELSE GetUserByUsername(username).user.password = password

\* ------------------------------------------------------- TokenStore
Valid(t) == t \in DOMAIN tokens /\ now <= tokens[t]

\* An insert that keeps the entry of a token that is already stored.
StoredIfAbsent(t, expiry) ==
    [x \in DOMAIN tokens \cup {t} |->
        IF x \in DOMAIN tokens THEN tokens[x] ELSE expiry]

Stored(t, expiry) ==
    [x \in DOMAIN tokens \cup {t} |-> IF x = t THEN expiry ELSE tokens[x]]

\* A delete that empties the map.
DeletedClears(t) == [x \in {} |-> 0]

Deleted(t) == [x \in DOMAIN tokens \ {t} |-> tokens[x]]

Access(w) ==
    CASE pc[w] = "reading" -> "read"
      [] pc[w] \in {"adding", "removing", "deleting"} -> "write"
      [] OTHER -> "none"

\* A Lock that does not wait for anyone.
CanLockAlways == TRUE

\* A Lock that waits for a writer but not for the readers.
CanLockIgnoresReaders == mu.writer = NoWorker

CanLock == mu.writer = NoWorker /\ mu.readers = {}

CanRLock == mu.writer = NoWorker

Conflicts(w, mode) ==
    {x \in Workers \ {w} :
        IF mode = "write" THEN Access(x) # "none" ELSE Access(x) = "write"}

MarkRace(w, mode) ==
    [x \in Workers |->
        IF x = w THEN Conflicts(w, mode) # {}
        ELSE raced[x] \/ x \in Conflicts(w, mode)]

Init ==
    /\ tokens = [t \in {} |-> 0]
    /\ mu = [writer |-> NoWorker, readers |-> {}]
    /\ now = 0
    /\ crashed = FALSE
    /\ issued = {}
    /\ pc = [w \in Workers |-> "idle"]
    /\ req = [w \in Workers |-> NoReq]
    /\ tok = [w \in Workers |-> ""]
    /\ raced = [w \in Workers |-> FALSE]
    /\ out = NoOut
    /\ filmStore = NewFilmStore


\* ---------------------------------------------------------- helpers
Release(w) ==
    /\ pc' = [pc EXCEPT ![w] = "idle"]
    /\ req' = [req EXCEPT ![w] = NoReq]
    /\ tok' = [tok EXCEPT ![w] = ""]
    /\ raced' = [raced EXCEPT ![w] = FALSE]

\* A request answered without calling the TokenStore.
Answer(w, r, status, msg) ==
    /\ out' = Response(w, r, status, msg)
    /\ UNCHANGED <<tokens, mu, now, crashed, issued, pc, req, tok, raced, filmStore>>

\* The comparison turned around: expiry.After(time.Now()).
AfterInverted(t, expiry) == expiry > t

\* time.Now().After(expiry)
After(t, expiry) == t > expiry

\* time.Now().Add(24 * time.Hour)
Expiry(t) == t + TTL

\* GenerateToken: 16 bytes of crypto/rand, hex-encoded.  The 128 random
\* bits are modelled as a value that no earlier call returned; tokens are
\* compared for equality only, so which unused value it is does not
\* matter and the pool is handed out in order.  Empty when the pool is
\* used up.
GenerateToken ==
    IF Cardinality(issued) < MaxTokens THEN {Pool[Cardinality(issued) + 1]} ELSE {}

\* ts.mu.RLock() / ts.mu.Lock() succeeding: the caller holds the lock and
\* starts its access to the map.
EnterRead(w) ==
    /\ mu' = [mu EXCEPT !.readers = @ \cup {w}]
    /\ raced' = MarkRace(w, "read")

EnterWrite(w) ==
    /\ mu' = [mu EXCEPT !.writer = w]
    /\ raced' = MarkRace(w, "write")

\* A handler reaching its TokenStore call with token t.  What the handler
\* did before is local to it, so the step ends at the lock: taken at once
\* when it is free, and the worker blocks (pc = blocked) when it is not.
Call(w, r, t, free, blocked, held) ==
    /\ req' = [req EXCEPT ![w] = r]
    /\ tok' = [tok EXCEPT ![w] = t]
    /\ IF free THEN
           /\ pc' = [pc EXCEPT ![w] = held]
           /\ IF held = "reading" THEN EnterRead(w) ELSE EnterWrite(w)
       ELSE
           /\ pc' = [pc EXCEPT ![w] = blocked]
           /\ UNCHANGED <<mu, raced>>

\* ------------------------------------------------------ requireAuth
\* requireAuth without the preflight branch.
StartProtectedNoPreflight(w, r) ==
    /\ ~crashed
    /\ pc[w] = "idle"
    /\ r.kind = "protected"
    /\ Presentable(r, issued)
    /\ IF ~HeaderCheck(r.header).pass THEN
           Answer(w, r, StatusUnauthorized, HeaderCheck(r.header).msg)
       ELSE
           /\ Call(w, r, HeaderCheck(r.header).token, CanRLock, "validate", "reading")
           /\ UNCHANGED <<tokens, now, crashed, issued, out, filmStore>>

StartProtected(w, r) ==
    /\ ~crashed
    /\ pc[w] = "idle"
    /\ r.kind = "protected"
    /\ Presentable(r, issued)
    /\ IF r.method = "OPTIONS" THEN
           Answer(w, r, StatusOK, "")
       ELSE IF ~HeaderCheck(r.header).pass THEN
           Answer(w, r, StatusUnauthorized, HeaderCheck(r.header).msg)
       ELSE
           /\ Call(w, r, HeaderCheck(r.header).token, CanRLock, "validate", "reading")
           /\ UNCHANGED <<tokens, now, crashed, issued, out, filmStore>>

\* requireAuth ignoring ValidateToken's result.
AuthOutAlways(w, result) == Delegated(w, req[w])

\* What requireAuth does with ValidateToken's result: next(w, r), whose
\* response is the wrapped handler's, or the 401.
AuthOut(w, result) ==
    IF result THEN
        Delegated(w, req[w])
    ELSE
        Response(w, req[w], StatusUnauthorized, "Invalid or expired token")

\* ---------------------------------------------------- ValidateToken
ValidateRLock(w) ==
    /\ ~crashed
    /\ pc[w] = "validate"
    /\ CanRLock
    /\ pc' = [pc EXCEPT ![w] = "reading"]
    /\ EnterRead(w)
    /\ UNCHANGED <<tokens, now, crashed, issued, req, tok, out, filmStore>>

LookupActual(t) ==
    IF t \in DOMAIN tokens THEN [exists |-> TRUE, expiry |-> tokens[t]]
    ELSE [exists |-> FALSE, expiry |-> 0]

\* expiry, exists := ts.tokens[token].  A lookup that overlapped a delete
\* of another worker is a data race: it finds the entry as it is stored,
\* or misses it (or the runtime stops the process, see RaceCrash).
LookupOutcomes(w) ==
    {LookupActual(tok[w])}
        \cup (IF raced[w] THEN {[exists |-> FALSE, expiry |-> 0]} ELSE {})

\* ValidateToken returns (the deferred RUnlock runs) and requireAuth
\* answers.  verdict is the branch taken: "absent", "expired" or "valid".
ValidateReturn(w, verdict) ==
    /\ mu' = [mu EXCEPT !.readers = @ \ {w}]
    /\ out' = [AuthOut(w, verdict = "valid") EXCEPT !.validated = verdict]
    /\ filmStore' = IF out'.delegated THEN Handled(req[w]).store ELSE filmStore
    /\ Release(w)

\* A ValidateToken that renews the expiry of a token it accepts.
ValidateLookupRefreshes(w) ==
    /\ ~crashed
    /\ pc[w] = "reading"
    /\ \E seen \in LookupOutcomes(w) :
        IF ~seen.exists THEN
            /\ ValidateReturn(w, "absent")
            /\ UNCHANGED <<tokens, now, crashed, issued>>
        ELSE IF After(now, seen.expiry) THEN
            /\ pc' = [pc EXCEPT ![w] = "deleting"]
            /\ raced' = MarkRace(w, "write")
            /\ UNCHANGED <<tokens, mu, now, crashed, issued, req, tok, out, filmStore>>
        ELSE
            /\ ValidateReturn(w, "valid")
            /\ tokens' = Stored(tok[w], Expiry(now))
            /\ UNCHANGED <<now, crashed, issued>>

\* A ValidateToken that records the token it did not find.
ValidateLookupStoresMisses(w) ==
    /\ ~crashed
    /\ pc[w] = "reading"
    /\ \E seen \in LookupOutcomes(w) :
        IF ~seen.exists THEN
            /\ ValidateReturn(w, "absent")
            /\ tokens' = Stored(tok[w], Expiry(now))
            /\ UNCHANGED <<now, crashed, issued>>
        ELSE IF After(now, seen.expiry) THEN
            /\ pc' = [pc EXCEPT ![w] = "deleting"]
            /\ raced' = MarkRace(w, "write")
            /\ UNCHANGED <<tokens, mu, now, crashed, issued, req, tok, out, filmStore>>
        ELSE
            /\ ValidateReturn(w, "valid")
            /\ UNCHANGED <<tokens, now, crashed, issued>>

ValidateLookup(w) ==
    /\ ~crashed
    /\ pc[w] = "reading"
    /\ \E seen \in LookupOutcomes(w) :
        IF ~seen.exists THEN
            /\ ValidateReturn(w, "absent")
            /\ UNCHANGED <<tokens, now, crashed, issued>>
        ELSE IF After(now, seen.expiry) THEN
            /\ pc' = [pc EXCEPT ![w] = "deleting"]
            /\ raced' = MarkRace(w, "write")
            /\ UNCHANGED <<tokens, mu, now, crashed, issued, req, tok, out, filmStore>>
        ELSE
            /\ ValidateReturn(w, "valid")
            /\ UNCHANGED <<tokens, now, crashed, issued>>

\* The expired branch answering without the delete.
ValidateDeleteKeeps(w) ==
    /\ ~crashed
    /\ pc[w] = "deleting"
    /\ ValidateReturn(w, "expired")
    /\ UNCHANGED <<tokens, now, crashed, issued>>

ValidateDelete(w) ==
    /\ ~crashed
    /\ pc[w] = "deleting"
    /\ tokens' = Deleted(tok[w])
    /\ ValidateReturn(w, "expired")
    /\ UNCHANGED <<now, crashed, issued>>

\* ------------------------------------------------------ loginHandler
\* The body decoded before the method is looked at.
LoginCheckBodyFirst(r) ==
    IF ~r.body.ok THEN
        [pass |-> FALSE, status |-> StatusBadRequest, msg |-> "Invalid JSON"]
    ELSE IF r.method # "POST" THEN
        [pass |-> FALSE, status |-> StatusMethodNotAllowed, msg |-> "Method not allowed"]
    ELSE IF r.body.username = "" \/ r.body.password = "" THEN
        [pass |-> FALSE, status |-> StatusBadRequest,
         msg |-> "Username and password are required"]
    ELSE IF ~ValidateUser(r.body.username, r.body.password) THEN
        [pass |-> FALSE, status |-> StatusUnauthorized, msg |-> "Invalid credentials"]
    ELSE
        [pass |-> TRUE, status |-> StatusOK, msg |-> ""]

\* The check for an empty username or password left out.
LoginCheckNoEmptyFields(r) ==
    IF r.method # "POST" THEN
        [pass |-> FALSE, status |-> StatusMethodNotAllowed, msg |-> "Method not allowed"]
    ELSE IF ~r.body.ok THEN
        [pass |-> FALSE, status |-> StatusBadRequest, msg |-> "Invalid JSON"]
    ELSE IF ~ValidateUser(r.body.username, r.body.password) THEN
        [pass |-> FALSE, status |-> StatusUnauthorized, msg |-> "Invalid credentials"]
    ELSE
        [pass |-> TRUE, status |-> StatusOK, msg |-> ""]

\* The method looked at after the body and the credentials.
LoginCheckMethodLast(r) ==
    IF ~r.body.ok THEN
        [pass |-> FALSE, status |-> StatusBadRequest, msg |-> "Invalid JSON"]
    ELSE IF r.body.username = "" \/ r.body.password = "" THEN
        [pass |-> FALSE, status |-> StatusBadRequest,
         msg |-> "Username and password are required"]
    ELSE IF ~ValidateUser(r.body.username, r.body.password) THEN
        [pass |-> FALSE, status |-> StatusUnauthorized, msg |-> "Invalid credentials"]
    ELSE IF r.method # "POST" THEN
        [pass |-> FALSE, status |-> StatusMethodNotAllowed, msg |-> "Method not allowed"]
    ELSE
        [pass |-> TRUE, status |-> StatusOK, msg |-> ""]

LoginCheck(r) ==
    IF r.method # "POST" THEN
        [pass |-> FALSE, status |-> StatusMethodNotAllowed, msg |-> "Method not allowed"]
    ELSE IF ~r.body.ok THEN
        [pass |-> FALSE, status |-> StatusBadRequest, msg |-> "Invalid JSON"]
    ELSE IF r.body.username = "" \/ r.body.password = "" THEN
        [pass |-> FALSE, status |-> StatusBadRequest,
         msg |-> "Username and password are required"]
    ELSE IF ~ValidateUser(r.body.username, r.body.password) THEN
        [pass |-> FALSE, status |-> StatusUnauthorized, msg |-> "Invalid credentials"]
    ELSE
        [pass |-> TRUE, status |-> StatusOK, msg |-> ""]

\* The token generated and stored before the credentials are checked.
StartLoginAddsFirst(w, r) ==
    /\ ~crashed
    /\ pc[w] = "idle"
    /\ r \in LoginRequests
    /\ \E t \in GenerateToken :
        /\ issued' = issued \cup {t}
        /\ tokens' = Stored(t, Expiry(now))
        /\ out' = IF r.method = "OPTIONS" THEN Response(w, r, StatusOK, "")
                  ELSE IF ~LoginCheck(r).pass
                      THEN Response(w, r, LoginCheck(r).status, LoginCheck(r).msg)
                  ELSE [Response(w, r, StatusOK, "") EXCEPT !.token = t]
        /\ UNCHANGED <<mu, now, crashed, pc, req, tok, raced, filmStore>>

\* GenerateToken registering the token it returns.
StartLoginGenerateStores(w, r) ==
    /\ ~crashed
    /\ pc[w] = "idle"
    /\ r \in LoginRequests
    /\ IF r.method = "OPTIONS" THEN
           Answer(w, r, StatusOK, "")
       ELSE IF ~LoginCheck(r).pass THEN
           Answer(w, r, LoginCheck(r).status, LoginCheck(r).msg)
       ELSE
           \E t \in GenerateToken :
               /\ issued' = issued \cup {t}
               /\ tokens' = Stored(t, Expiry(now))
               /\ Call(w, r, t, CanLock, "add", "adding")
               /\ UNCHANGED <<now, crashed, out, filmStore>>

StartLogin(w, r) ==
    /\ ~crashed
    /\ pc[w] = "idle"
    /\ r \in LoginRequests
    /\ IF r.method = "OPTIONS" THEN
           Answer(w, r, StatusOK, "")
       ELSE IF ~LoginCheck(r).pass THEN
           Answer(w, r, LoginCheck(r).status, LoginCheck(r).msg)
       ELSE
           \E t \in GenerateToken :
               /\ issued' = issued \cup {t}
               /\ Call(w, r, t, CanLock, "add", "adding")
               /\ UNCHANGED <<tokens, now, crashed, out, filmStore>>

\* --------------------------------------------------------- AddToken
AddLock(w) ==
    /\ ~crashed
    /\ pc[w] = "add"
    /\ CanLock
    /\ pc' = [pc EXCEPT ![w] = "adding"]
    /\ EnterWrite(w)
    /\ UNCHANGED <<tokens, now, crashed, issued, req, tok, out, filmStore>>

AddStore(w) ==
    /\ ~crashed
    /\ pc[w] = "adding"
    /\ tokens' = Stored(tok[w], Expiry(now))
    /\ mu' = [mu EXCEPT !.writer = NoWorker]
    /\ out' = [Response(w, req[w], StatusOK, "") EXCEPT !.token = tok[w]]
    /\ Release(w)
    /\ UNCHANGED <<now, crashed, issued, filmStore>>

\* ----------------------------------------------------- logoutHandler
StartLogout(w, r) ==
    /\ ~crashed
    /\ pc[w] = "idle"
    /\ r \in LogoutRequests
    /\ Presentable(r, issued)
    /\ IF r.method = "OPTIONS" THEN
           Answer(w, r, StatusOK, "")
       ELSE IF r.method # "POST" THEN
           Answer(w, r, StatusMethodNotAllowed, "Method not allowed")
       ELSE IF ~HeaderCheck(r.header).pass THEN
           Answer(w, r, StatusUnauthorized, HeaderCheck(r.header).msg)
       ELSE
           /\ Call(w, r, HeaderCheck(r.header).token, CanLock, "remove", "removing")
           /\ UNCHANGED <<tokens, now, crashed, issued, out, filmStore>>

\* ------------------------------------------------------ RemoveToken
RemoveLock(w) ==
    /\ ~crashed
    /\ pc[w] = "remove"
    /\ CanLock
    /\ pc' = [pc EXCEPT ![w] = "removing"]
    /\ EnterWrite(w)
    /\ UNCHANGED <<tokens, now, crashed, issued, req, tok, out, filmStore>>

\* RemoveToken answering without the delete.
RemoveDeleteKeeps(w) ==
    /\ ~crashed
    /\ pc[w] = "removing"
    /\ mu' = [mu EXCEPT !.writer = NoWorker]
    /\ out' = Response(w, req[w], StatusOK, "Logged out successfully")
    /\ Release(w)
    /\ UNCHANGED <<tokens, now, crashed, issued, filmStore>>

\* A logout that refuses a token it does not find.
RemoveDeleteStrict(w) ==
    /\ ~crashed
    /\ pc[w] = "removing"
    /\ tokens' = Deleted(tok[w])
    /\ mu' = [mu EXCEPT !.writer = NoWorker]
    /\ out' = IF tok[w] \in DOMAIN tokens
                 THEN Response(w, req[w], StatusOK, "Logged out successfully")
                 ELSE Response(w, req[w], StatusUnauthorized, "Invalid or expired token")
    /\ Release(w)
    /\ UNCHANGED <<now, crashed, issued, filmStore>>

\* A RemoveToken that deletes only a token ValidateToken would accept.
RemoveDeleteIfValid(w) ==
    /\ ~crashed
    /\ pc[w] = "removing"
    /\ tokens' = IF tok[w] \in DOMAIN tokens /\ After(now, tokens[tok[w]])
                    THEN tokens ELSE Deleted(tok[w])
    /\ mu' = [mu EXCEPT !.writer = NoWorker]
    /\ out' = Response(w, req[w], StatusOK, "Logged out successfully")
    /\ Release(w)
    /\ UNCHANGED <<now, crashed, issued, filmStore>>

RemoveDelete(w) ==
    /\ ~crashed
    /\ pc[w] = "removing"
    /\ tokens' = Deleted(tok[w])
    /\ mu' = [mu EXCEPT !.writer = NoWorker]
    /\ out' = Response(w, req[w], StatusOK, "Logged out successfully")
    /\ Release(w)
    /\ UNCHANGED <<now, crashed, issued, filmStore>>

\* ------------------------------------------------------ environment
\* A clock tick on which a sweep drops the entries that have expired.
TickSweeps ==
    /\ ~crashed
    /\ now < MaxTime
    /\ now' = now + TickStep
    /\ tokens' = [x \in {y \in DOMAIN tokens : ~After(now + TickStep, tokens[y])}
                      |-> tokens[x]]
    /\ UNCHANGED <<mu, crashed, issued, pc, req, tok, raced, out, filmStore>>

Tick ==
    /\ ~crashed
    /\ now < MaxTime
    /\ now' = now + TickStep
    /\ UNCHANGED <<tokens, mu, crashed, issued, pc, req, tok, raced, out, filmStore>>

\* The runtime's check on a map access that overlaps a write:
\* "fatal error: concurrent map read and map write" / "concurrent map
\* writes".  The process exits; no deferred function runs.
RaceCrash ==
    /\ ~crashed
    /\ \E w \in Workers : raced[w]
    /\ crashed' = TRUE
    /\ UNCHANGED <<tokens, mu, now, issued, pc, req, tok, raced, out, filmStore>>

Next ==
    \/ \E w \in Workers : \E r \in ProtectedRequests : StartProtected(w, r)
    \/ \E w \in Workers : ValidateRLock(w)
    \/ \E w \in Workers : ValidateLookup(w)
    \/ \E w \in Workers : ValidateDelete(w)
    \/ \E w \in Workers : \E r \in LoginRequests : StartLogin(w, r)
    \/ \E w \in Workers : AddLock(w)
    \/ \E w \in Workers : AddStore(w)
    \/ \E w \in Workers : \E r \in LogoutRequests : StartLogout(w, r)
    \/ \E w \in Workers : RemoveLock(w)
    \/ \E w \in Workers : RemoveDelete(w)
    \/ Tick
    \/ RaceCrash

Spec == Init /\ [][Next]_vars

\* ------------------------------------- the TokenStore called directly
\* The methods of the TokenStore called by concurrent workers with any
\* token, as a caller other than the three handlers may call them.
StoreOps == {"AddToken", "ValidateToken", "RemoveToken"}

CallStore(w, op, t) ==
    /\ ~crashed
    /\ pc[w] = "idle"
    /\ LET r == Request("call", op, <<t>>, NoBody)
       IN  CASE op = "AddToken" -> Call(w, r, t, CanLock, "add", "adding")
             [] op = "ValidateToken" ->
                    Call(w, r, t, CanRLock, "validate", "reading")
             [] op = "RemoveToken" -> Call(w, r, t, CanLock, "remove", "removing")
    /\ UNCHANGED <<tokens, now, crashed, issued, out, filmStore>>

StoreNext ==
    \/ \E w \in Workers : \E op \in StoreOps : \E t \in Generable :
           CallStore(w, op, t)
    \/ \E w \in Workers : ValidateRLock(w)
    \/ \E w \in Workers : ValidateLookup(w)
    \/ \E w \in Workers : ValidateDelete(w)
    \/ \E w \in Workers : AddLock(w)
    \/ \E w \in Workers : AddStore(w)
    \/ \E w \in Workers : RemoveLock(w)
    \/ \E w \in Workers : RemoveDelete(w)
    \/ Tick
    \/ RaceCrash

StoreSpec == Init /\ [][StoreNext]_vars

\* ------------------------------- the credential check called directly
Usernames ==
    {"admin", "Admin", "ADMIN", "admin ", "user1", "demo", "nobody", "",
     "admin123", "demo456"}

Passwords ==
    {"admin123", "Admin123", "ADMIN123", "admin123 ", "password123",
     "Password123", "demo456", "", "admin", "wrong"}

Credentials(username, password) ==
    [ok |-> TRUE, username |-> username, password |-> password]

\* The credential check of loginHandler and its answer: the registry of
\* config.yaml (validateUser) or the users table (UserService).
CheckUser(w, impl, username, password) ==
    /\ ~crashed
    /\ pc[w] = "idle"
    /\ LET r == Request("call", impl, <<>>, Credentials(username, password))
           accepted == IF impl = "validateUser"
                          THEN ValidateUser(username, password)
                          ELSE UserServiceValidateUser(username, password)
       IN  out' = IF accepted THEN Response(w, r, StatusOK, "")
                  ELSE Response(w, r, StatusUnauthorized, "Invalid credentials")
    /\ UNCHANGED <<tokens, mu, now, crashed, issued, pc, req, tok, raced, filmStore>>

CredNext ==
    \E w \in Workers : \E impl \in {"validateUser", "UserService.ValidateUser"} :
        \E username \in Usernames : \E password \in Passwords :
            CheckUser(w, impl, username, password)

CredSpec == Init /\ [][CredNext]_vars

\* ------------------------------------------------------- the mux
\* The registrations of main with the film subtree left unwrapped.
RoutesFilmsOpen ==
    << [pattern |-> <<"/", "api/login">>, kind |-> "login"],
       [pattern |-> <<"/", "api/logout">>, kind |-> "logout"],
       [pattern |-> FilmsPath, kind |-> "protected"],
       [pattern |-> FilmsPath \o <<"/">>, kind |-> "films"],
       [pattern |-> <<"/">>, kind |-> "static"] >>

\* http.HandleFunc(pattern, handler) of main: "protected" is
\* requireAuth(filmsHandler), "films" would be filmsHandler alone.
Routes ==
    << [pattern |-> <<"/", "api/login">>, kind |-> "login"],
       [pattern |-> <<"/", "api/logout">>, kind |-> "logout"],
       [pattern |-> FilmsPath, kind |-> "protected"],
       [pattern |-> FilmsPath \o <<"/">>, kind |-> "protected"],
       [pattern |-> <<"/">>, kind |-> "static"] >>

\* A pattern that ends in a slash matches every path below it, another
\* pattern matches the path equal to it.
Matches(pattern, path) ==
    IF pattern[Len(pattern)] = "/" THEN
        Len(path) >= Len(pattern) /\ SubSeq(path, 1, Len(pattern)) = pattern
    ELSE path = pattern

\* http.ServeMux: the longest pattern that matches wins.
RouteOf(routes, path) ==
    CHOOSE i \in DOMAIN routes :
        /\ Matches(routes[i].pattern, path)
        /\ \A j \in DOMAIN routes :
              Matches(routes[j].pattern, path) =>
                  Len(routes[j].pattern) <= Len(routes[i].pattern)

MuxFilmsOpen(path) == RoutesFilmsOpen[RouteOf(RoutesFilmsOpen, path)].kind

Mux(path) == Routes[RouteOf(Routes, path)].kind

\* ------------------------------------------------- the film requests
GoodFilm ==
    [ok |-> TRUE, ID |-> 3, Title |-> "Alien", Director |-> "Ridley Scott", Year |-> 1979]

\* The id of the last sample film, as a path ends in it.
LastSample == Numerals[Len(SampleFilms)]

FilmRequest(method, path, header, film) ==
    [Request("protected", method, header, NoBody) EXCEPT !.path = path, !.film = film]

FilmHeaders == {<<>>, <<"Bearer", " ", Pool[1]>>}

FilmRequests ==
    {FilmRequest(c[1], c[2], h, c[3]) :
        c \in { <<"GET", FilmsPath, NoFilm>>,
                <<"POST", FilmsPath, GoodFilm>>,
                <<"PUT", FilmsPath \o <<"/", LastSample>>, GoodFilm>>,
                <<"DELETE", FilmsPath \o <<"/", LastSample>>, NoFilm>>,
                <<"POST", <<"/", "api/filmsx">>, GoodFilm>> },
        h \in FilmHeaders}

\* The films added so far and the additions under way stay within MaxAdds.
AddsInFlight == {w \in Workers : req[w].method \in {"POST", "addFilm"}
                                    /\ req[w].kind \in {"protected", "call"}}

CanAdd == filmStore.nextID + Cardinality(AddsInFlight) < NewFilmStore.nextID + MaxAdds

\* A handler registered without the middleware: it runs at once.
Direct(w, r) ==
    /\ ~crashed
    /\ pc[w] = "idle"
    /\ out' = [Response(w, r, Handled(r).status, Handled(r).msg) EXCEPT
                  !.films = Handled(r).films]
    /\ filmStore' = Handled(r).store
    /\ UNCHANGED <<tokens, mu, now, crashed, issued, pc, req, tok, raced>>

\* The server's mux handing a request to the handler registered for its
\* path.  Film requests are served one at a time here, next to the logins
\* and logouts of the other worker.
ServeHTTP(w, r) ==
    /\ \A x \in Workers : req[x].kind # "protected"
    /\ r.method = "POST" /\ r.film.ok => CanAdd
    /\ CASE Mux(r.path) = "login" -> StartLogin(w, r)
         [] Mux(r.path) = "logout" -> StartLogout(w, r)
         [] Mux(r.path) = "protected" -> StartProtected(w, r)
         [] OTHER -> Direct(w, r)

FilmNext ==
    \/ \E w \in Workers : \E r \in FilmRequests : ServeHTTP(w, r)
    \/ \E w \in Workers : StartLogin(w, Request("login", "POST", <<>>, GoodBody))
    \/ \E w \in Workers :
          StartLogout(w, Request("logout", "POST", <<"Bearer", " ", Pool[1]>>, NoBody))
    \/ \E w \in Workers : ValidateRLock(w)
    \/ \E w \in Workers : ValidateLookup(w)
    \/ \E w \in Workers : ValidateDelete(w)
    \/ \E w \in Workers : AddLock(w)
    \/ \E w \in Workers : AddStore(w)
    \/ \E w \in Workers : RemoveLock(w)
    \/ \E w \in Workers : RemoveDelete(w)
    \/ Tick

FilmSpec == Init /\ [][FilmNext]_vars

\* -------------------------------------- the FilmStore called directly
FilmCall(op, id, film) ==
    [Request("call", op, <<>>, NoBody) EXCEPT !.film = film, !.arg = id]

FilmIDs == {Len(SampleFilms), Len(SampleFilms) + 1}

FilmCalls ==
    {FilmCall("addFilm", 0, f) : f \in {GoodFilm, [GoodFilm EXCEPT !.ID = 0]}}
        \cup {FilmCall("updateFilm", id, GoodFilm) : id \in FilmIDs}
        \cup {FilmCall(op, id, NoFilm) : op \in {"deleteFilm", "getFilm"}, id \in FilmIDs}
        \cup {FilmCall("getFilms", 0, NoFilm)}

CallFilmStore(w, c) ==
    /\ ~crashed
    /\ pc[w] = "idle"
    /\ c.method = "addFilm" => CanAdd
    /\ pc' = [pc EXCEPT ![w] = "film_call"]
    /\ req' = [req EXCEPT ![w] = c]
    /\ UNCHANGED <<tokens, mu, now, crashed, issued, tok, raced, out, filmStore>>

\* A Lock that waits for a writer only.
FilmCanLockShared == filmStore.mu.writer = NoWorker

FilmCanLock == filmStore.mu.writer = NoWorker /\ filmStore.mu.readers = {}

FilmCanRLock == filmStore.mu.writer = NoWorker

\* fs.mu.Lock() / fs.mu.RLock() returning.
FilmLock(w) ==
    /\ pc[w] = "film_call"
    /\ IF req[w].method \in {"getFilms", "getFilm"} THEN
           /\ FilmCanRLock
           /\ filmStore' = [filmStore EXCEPT !.mu.readers = @ \cup {w}]
           /\ pc' = [pc EXCEPT ![w] = "film_read"]
       ELSE
           /\ FilmCanLock
           /\ filmStore' = [filmStore EXCEPT !.mu.writer = w]
           /\ pc' = [pc EXCEPT ![w] = "film_check"]
    /\ UNCHANGED <<tokens, mu, now, crashed, issued, req, tok, raced, out>>

\* The body of getFilms / getFilm and the deferred RUnlock.
FilmRead(w) ==
    /\ pc[w] = "film_read"
    /\ out' = IF req[w].method = "getFilms"
                 THEN [Response(w, req[w], StatusOK, "") EXCEPT
                          !.films = getFilms(filmStore)]
              ELSE IF getFilm(filmStore, req[w].arg).exists
                 THEN [Response(w, req[w], StatusOK, "") EXCEPT
                          !.films = getFilm(filmStore, req[w].arg).films]
              ELSE Response(w, req[w], StatusNotFound, "")
    /\ filmStore' = [filmStore EXCEPT !.mu.readers = @ \ {w}]
    /\ Release(w)
    /\ UNCHANGED <<tokens, mu, now, crashed, issued>>

\* The first statement under the exclusive lock: addFilm sets film.ID,
\* updateFilm and deleteFilm look the id up and return false when it is
\* not stored.
FilmCheck(w) ==
    /\ pc[w] = "film_check"
    /\ IF req[w].method = "addFilm" THEN
           /\ req' = [req EXCEPT ![w].film.ID = NewID(filmStore)]
           /\ pc' = [pc EXCEPT ![w] = "film_write"]
           /\ UNCHANGED <<tok, raced, out, filmStore>>
       ELSE IF req[w].arg \in DOMAIN filmStore.films THEN
           /\ pc' = [pc EXCEPT ![w] = "film_write"]
           /\ UNCHANGED <<req, tok, raced, out, filmStore>>
       ELSE
           /\ out' = Response(w, req[w], StatusNotFound, "")
           /\ filmStore' = [filmStore EXCEPT !.mu.writer = NoWorker]
           /\ Release(w)
    /\ UNCHANGED <<tokens, mu, now, crashed, issued>>

\* The write, the return and the deferred Unlock.
FilmWrite(w) ==
    /\ pc[w] = "film_write"
    /\ LET film == FilmOf(req[w].film)
           id == req[w].arg
       IN  CASE req[w].method = "addFilm" ->
                  /\ filmStore' = [filmStore EXCEPT
                        !.films = Put(@, filmStore.nextID, film),
                        !.nextID = @ + 1,
                        !.mu.writer = NoWorker]
                  /\ out' = [Response(w, req[w], StatusOK, "") EXCEPT
                                !.films = Put(<<>>, film.ID, film)]
             [] req[w].method = "updateFilm" ->
                  /\ filmStore' = [filmStore EXCEPT
                        !.films = Put(@, id, WithID(film, id)),
                        !.mu.writer = NoWorker]
                  /\ out' = [Response(w, req[w], StatusOK, "") EXCEPT
                                !.films = Put(<<>>, id, WithID(film, id))]
             [] req[w].method = "deleteFilm" ->
                  /\ filmStore' = [filmStore EXCEPT
                        !.films = Drop(@, id),
                        !.mu.writer = NoWorker]
                  /\ out' = Response(w, req[w], StatusOK, "")
    /\ Release(w)
    /\ UNCHANGED <<tokens, mu, now, crashed, issued>>

FilmStoreNext ==
    \/ \E w \in Workers : \E c \in FilmCalls : CallFilmStore(w, c)
    \/ \E w \in Workers : FilmLock(w)
    \/ \E w \in Workers : FilmRead(w)
    \/ \E w \in Workers : FilmCheck(w)
    \/ \E w \in Workers : FilmWrite(w)

FilmStoreSpec == Init /\ [][FilmStoreNext]_vars

\* ------------------------------------------------------------ claims
\* Steps of worker w named by what they complete.
LookupEnds(w) == pc[w] = "reading" /\ pc'[w] # "reading"

Answers(w, from) == pc[w] = from /\ pc'[w] = "idle"

BearerToken(h) == Len(h) = 3 /\ h[1] = "Bearer" /\ h[2] = " " /\ h[3] # " "

\* C1: every write of the TokenStore map, the delete of ValidateToken
\* included, is made with exclusive access: no worker writes the map
\* while another worker reads or writes it.
ExclusiveMapWrites ==
    \A w1, w2 \in Workers :
        (w1 # w2 /\ Access(w1) = "write") => Access(w2) = "none"

\* C2: ValidateToken(t) returns true exactly when t is in the store and
\* the time is not after its expiry, the expiry being the time of the
\* AddToken plus 24 hours.
ValidateIffValid ==
    [][\A w \in Workers :
        /\ LookupEnds(w) =>
              ((pc'[w] = "idle" /\ out'.validated = "valid") <=> Valid(tok[w]))
        /\ Answers(w, "adding") => tokens'[tok[w]] = now + TTL]_vars

\* A login that has generated t has not stored it yet.
Adding(t) == \E w \in Workers : pc[w] \in {"add", "adding"} /\ tok[w] = t

Rejected(o) == o.status = StatusUnauthorized /\ ~o.delegated

\* C3: a ValidateToken that finds t expired leaves no entry for t when it
\* returns false; nothing but an AddToken of t puts an entry back, and a
\* ValidateToken that finds no entry returns false.
ExpiredEvictionPermanent ==
    [][\A w \in Workers :
        /\ Answers(w, "deleting") =>
              (out'.validated = "expired" /\ ~out'.delegated
                  /\ tok[w] \notin DOMAIN tokens')
        /\ \A t \in DOMAIN tokens' \ DOMAIN tokens :
              \E a \in Workers : Answers(a, "adding") /\ tok[a] = t
        /\ (LookupEnds(w) /\ tok[w] \notin DOMAIN tokens) =>
              (pc'[w] = "idle" /\ out'.validated = "absent" /\ ~out'.delegated)]_vars

\* A request with an expired token was answered and the entry is gone.
EvictedExpired ==
    /\ out.validated = "expired"
    /\ BearerToken(out.req.header)
    /\ out.req.header[3] \in issued
    /\ out.req.header[3] \notin DOMAIN tokens
    /\ Rejected(out)

\* C4: a protected request carrying a token that a login returned, and
\* that is still valid at the token check, is delegated; a logout removes
\* the token, the token never comes back, and a protected request whose
\* token is not in the store is answered 401 without delegation.
SessionLifecycle ==
    [][\A w \in Workers :
        /\ (req[w].kind = "protected" /\ LookupEnds(w) /\ Valid(tok[w])) =>
              (pc'[w] = "idle" /\ out'.req = req[w] /\ out'.delegated)
        /\ Answers(w, "removing") =>
              (out'.status = StatusOK /\ tok[w] \notin DOMAIN tokens')
        /\ \A t \in issued :
              (t \notin DOMAIN tokens /\ ~Adding(t)) => t \notin DOMAIN tokens'
        /\ (req[w].kind = "protected" /\ LookupEnds(w) /\ tok[w] \notin DOMAIN tokens) =>
              (pc'[w] = "idle" /\ out'.req = req[w] /\ Rejected(out'))]_vars

\* C5: the wrapped handler runs only for a request that is no preflight,
\* carries a "Bearer <token>" header, and for which ValidateToken returned
\* true.
DelegatedOnlyIfValidated ==
    out.delegated =>
        /\ out.req.kind = "protected"
        /\ out.req.method # "OPTIONS"
        /\ out.req.header # <<>>
        /\ BearerToken(out.req.header)
        /\ out.validated = "valid"
        /\ out.status = StatusOK

DelegatedRequest == out.delegated /\ out.req.header[3] \in DOMAIN tokens

\* C6: a protected request that is no preflight is answered 401 and not
\* delegated when it has no Authorization header, a scheme other than
\* Bearer, "Bearer" alone, or a token that is not valid at the token check.
RejectsUnauthenticated ==
    /\ [](( /\ out.req.kind = "protected"
            /\ out.req.method # "OPTIONS"
            /\ \/ out.req.header = <<>>
               \/ out.req.header[1] # "Bearer"
               \/ out.req.header = <<"Bearer">> )
          => Rejected(out))
    /\ [][\A w \in Workers :
            /\ (req[w].kind = "protected" /\ LookupEnds(w) /\ ~Valid(tok[w])) =>
                  \/ pc'[w] = "deleting"
                  \/ pc'[w] = "idle" /\ out'.req = req[w] /\ Rejected(out')
            /\ (req[w].kind = "protected" /\ Answers(w, "deleting")) =>
                  (out'.req = req[w] /\ Rejected(out'))]_vars

RejectedBadToken ==
    /\ out.req.kind = "protected"
    /\ out.req.header = <<"Bearer", " ", "badtoken">>
    /\ out.validated = "absent"
    /\ Rejected(out)

\* C7: a login with correct credentials answers 200 with a generated
\* token that it has stored, unexpired, before it answers; the entry stays
\* until a logout removes it or it is evicted after its expiry, and a
\* ValidateToken of a token that is stored and unexpired returns true.
LoginTokenValidates ==
    [][\A w \in Workers :
        /\ Answers(w, "adding") =>
              /\ out'.status = StatusOK
              /\ out'.token = tok[w]
              /\ tok[w] \in DOMAIN tokens'
              /\ now' <= tokens'[tok[w]]
        /\ \A t \in DOMAIN tokens \ DOMAIN tokens' :
              \E x \in Workers :
                  /\ tok[x] = t
                  /\ \/ Answers(x, "removing")
                     \/ Answers(x, "deleting") /\ now > tokens[t]
        /\ (LookupEnds(w) /\ Valid(tok[w])) =>
              (pc'[w] = "idle" /\ out'.validated = "valid")]_vars

\* C8: a login that is refused (405, 400 or 401) leaves the TokenStore as
\* it was.
FailedLoginKeepsStore ==
    [][(out' # out /\ out'.req.kind = "login" /\ out'.status # StatusOK)
          => tokens' = tokens]_vars

FailedLoginSeen ==
    /\ out.req.kind = "login"
    /\ out.status = StatusUnauthorized
    /\ out.msg = "Invalid credentials"
    /\ DOMAIN tokens # {}

\* C9: RemoveToken(t) leaves no entry for t, and a ValidateToken(t) that
\* finds no entry returns false.
RemoveThenValidateFalse ==
    [][\A w \in Workers :
        /\ Answers(w, "removing") => tok[w] \notin DOMAIN tokens'
        /\ (LookupEnds(w) /\ tok[w] \notin DOMAIN tokens) =>
              (pc'[w] = "idle" /\ out'.validated = "absent" /\ ~out'.delegated)]_vars

\* At time 0 nothing has expired: a token that a login stored and that is
\* gone was removed by a logout, and the request answered last carried it.
ValidatedAfterRemove ==
    /\ now = 0
    /\ out.req.kind = "protected"
    /\ BearerToken(out.req.header)
    /\ out.req.header[3] \in issued
    /\ out.req.header[3] \notin DOMAIN tokens
    /\ ~Adding(out.req.header[3])
    /\ out.validated = "absent"

\* C10: a POST logout with a "Bearer <token>" header is answered 200 in
\* every state of the token; it leaves no entry for the token and every
\* other entry as it was, so a logout of a token that is not stored
\* leaves the store unchanged.
LogoutIdempotent ==
    /\ [](( /\ out.req.kind = "logout"
            /\ out.req.method = "POST"
            /\ BearerToken(out.req.header) )
          => (out.status = StatusOK /\ out.msg = "Logged out successfully"))
    /\ [][\A w \in Workers :
            Answers(w, "removing") =>
                /\ tokens' = [x \in DOMAIN tokens \ {tok[w]} |-> tokens[x]]
                /\ tok[w] \notin DOMAIN tokens => tokens' = tokens]_vars

\* A logout of a token that is not in the store was answered 200.
LogoutOfAbsentToken ==
    /\ out.req.kind = "logout"
    /\ out.req.method = "POST"
    /\ BearerToken(out.req.header)
    /\ out.req.header[3] \notin DOMAIN tokens
    /\ out.req.header[3] \in issued
    /\ now > TTL
    /\ out.status = StatusOK

\* A header made of "Bearer", one space and a token part, which is what
\* requireAuth passes on to ValidateToken.
TwoParts(h) ==
    /\ Len(h) \in {2, 3}
    /\ h[1] = "Bearer"
    /\ h[2] = " "
    /\ Len(h) = 3 => h[3] # " "

\* Worker w starts a RemoveToken call in this step.
CallsRemove(w) == pc[w] = "idle" /\ pc'[w] \in {"remove", "removing"}

PreflightShortCircuits ==
    /\ (out.req.kind = "protected" /\ out.req.method = "OPTIONS") =>
          /\ out.status = StatusOK
          /\ out.msg = ""
          /\ ~out.delegated
          /\ out.validated = "none"
    /\ \A w \in Workers : req[w].method # "OPTIONS"

\* A preflight carrying a valid token was answered.
PreflightWithValidToken ==
    /\ out.req.kind = "protected"
    /\ out.req.method = "OPTIONS"
    /\ BearerToken(out.req.header)
    /\ Valid(out.req.header[3])

\* C13: every response of the middleware (preflight, each rejection,
\* delegation) carries Access-Control-Allow-Origin "*", the allowed
\* methods GET, POST, PUT, DELETE, OPTIONS and the allowed headers
\* Content-Type and Authorization.
CORSHeadersAlways ==
    out.req.kind = "protected" =>
        /\ DOMAIN out.headers = {"Access-Control-Allow-Origin",
                                 "Access-Control-Allow-Methods",
                                 "Access-Control-Allow-Headers"}
        /\ out.headers["Access-Control-Allow-Origin"] = "*"
        /\ out.headers["Access-Control-Allow-Methods"]
              = "GET, POST, PUT, DELETE, OPTIONS"
        /\ out.headers["Access-Control-Allow-Headers"]
              = "Content-Type, Authorization"

\* A rejection by the token check, with the headers on it.
CORSOnRejection ==
    /\ out.req.kind = "protected"
    /\ out.validated = "expired"
    /\ Rejected(out)
    /\ DOMAIN out.headers # {}

\* Some call of the TokenStore that is under way can take its next step.
Advance ==
    \E w \in Workers :
        \/ ValidateRLock(w) \/ ValidateLookup(w) \/ ValidateDelete(w)
        \/ AddLock(w) \/ AddStore(w)
        \/ RemoveLock(w) \/ RemoveDelete(w)

\* The terminal states of the middleware that response o is in.
Terminals(o) ==
    {k \in {"short-circuit", "no header", "bad format", "bad token", "delegated"} :
        CASE k = "short-circuit" ->
                 o.req.method = "OPTIONS" /\ o.status = StatusOK /\ ~o.delegated
          [] k = "no header" ->
                 Rejected(o) /\ o.msg = "Authorization header required"
          [] k = "bad format" ->
                 Rejected(o) /\ o.msg = "Invalid authorization header format"
          [] k = "bad token" ->
                 Rejected(o) /\ o.msg = "Invalid or expired token"
          [] k = "delegated" -> o.delegated}

\* C14: a request through the middleware is answered in exactly one
\* terminal state (short-circuit, one of the rejections, delegation), never
\* rejected and delegated at once; the token check is reached only by a
\* request that is no preflight and has passed the header and the format
\* check; and no request stays in the token check: while one is there, a
\* step that brings it on can be taken.
MiddlewareStateMachine ==
    /\ out.req.kind = "protected" =>
          (Cardinality(Terminals(out)) = 1 /\ ~(Rejected(out) /\ out.delegated))
    /\ \A w \in Workers :
          req[w].kind = "protected" =>
              /\ pc[w] \in {"validate", "reading", "deleting"}
              /\ req[w].method # "OPTIONS"
              /\ TwoParts(req[w].header)
              /\ ENABLED Advance

\* Worker w starts an AddToken call in this step.
CallsAdd(w) == pc[w] = "idle" /\ pc'[w] \in {"add", "adding"}

\* C15 as stated: a login whose method is not POST, OPTIONS included, is
\* answered 405 whatever its body is, and neither calls AddToken nor
\* changes the TokenStore.
LoginNonPostRejected ==
    /\ []((out.req.kind = "login" /\ out.req.method # "POST") =>
            (out.status = StatusMethodNotAllowed /\ out.msg = "Method not allowed"))
    /\ [][/\ \A w \in Workers : (CallsAdd(w) => req'[w].method = "POST")
          /\ ((out' # out /\ out'.req.kind = "login" /\ out'.req.method # "POST")
                => tokens' = tokens)]_vars

\* C15, amended: a login whose method is neither POST nor OPTIONS is
\* answered 405 and a login whose method is OPTIONS with an empty 200 and
\* no token, whatever the body is; neither calls AddToken nor changes the
\* TokenStore.
LoginNonPostRejectedExceptPreflight ==
    /\ [](out.req.kind = "login" =>
            /\ out.req.method \notin {"POST", "OPTIONS"} =>
                  (out.status = StatusMethodNotAllowed
                      /\ out.msg = "Method not allowed" /\ out.token = "")
            /\ out.req.method = "OPTIONS" =>
                  (out.status = StatusOK /\ out.msg = "" /\ out.token = ""))
    /\ [][/\ \A w \in Workers : (CallsAdd(w) => req'[w].method = "POST")
          /\ ((out' # out /\ out'.req.kind = "login" /\ out'.req.method # "POST")
                => tokens' = tokens)]_vars

\* A GET login with a body that does not decode was answered 405.
GetLoginBadBodyRefused ==
    /\ out.req.kind = "login"
    /\ out.req.method = "GET"
    /\ ~out.req.body.ok
    /\ out.status = StatusMethodNotAllowed
    /\ DOMAIN tokens # {}

\* C16: a POST login is answered 400 when its body does not decode, 400
\* when the username or the password is empty, 401 when the registry has
\* no such pair, and 200 with a generated token when it has; a token is
\* generated and stored for an accepted pair only.
LoginErrorTaxonomy ==
    /\ (out.req.kind = "login" /\ out.req.method = "POST") =>
          LET b == out.req.body
              empty == b.username = "" \/ b.password = ""
              known == \E i \in 1..Len(Users) :
                           Users[i] = [username |-> b.username,
                                       password |-> b.password]
          IN  /\ ~b.ok => (out.status = StatusBadRequest /\ out.msg = "Invalid JSON")
              /\ (b.ok /\ empty) =>
                    (out.status = StatusBadRequest
                        /\ out.msg = "Username and password are required")
              /\ (b.ok /\ ~empty /\ ~known) =>
                    (out.status = StatusUnauthorized /\ out.msg = "Invalid credentials")
              /\ (b.ok /\ ~empty /\ known) =>
                    (out.status = StatusOK /\ out.token \in issued)
              /\ out.status # StatusOK => out.token = ""
    /\ \A w \in Workers :
          pc[w] \in {"add", "adding"} =>
              /\ req[w].body.ok
              /\ \E i \in 1..Len(Users) :
                    Users[i] = [username |-> req[w].body.username,
                                password |-> req[w].body.password]

\* A login with an empty password was answered 400.
EmptyPasswordRefused ==
    /\ out.req.kind = "login"
    /\ out.req.method = "POST"
    /\ out.req.body.ok
    /\ out.req.body.username = "admin"
    /\ out.req.body.password = ""
    /\ out.status = StatusBadRequest

\* C17: the step in which GenerateToken returns a token leaves the
\* TokenStore as it was; the token has no entry until AddToken stores it,
\* and a ValidateToken of it before that returns false.
GenerateHasNoEffect ==
    /\ [](\A t \in issued : Adding(t) => t \notin DOMAIN tokens)
    /\ [][/\ issued' # issued => tokens' = tokens
          /\ \A w \in Workers :
                (LookupEnds(w) /\ Adding(tok[w])) =>
                    (pc'[w] = "idle" /\ out'.validated = "absent"
                        /\ ~out'.delegated)]_vars

\* A request carrying a token that was generated and not yet added was
\* refused.
GeneratedNotYetValid ==
    /\ out.req.kind = "protected"
    /\ BearerToken(out.req.header)
    /\ Adding(out.req.header[3])
    /\ out.validated = "absent"
    /\ Rejected(out)

\* C18: AddToken(t) at time now leaves exactly the entries it found and
\* an entry for t with expiry now + 24h, whether or not t had an entry: an
\* entry of t is replaced and the number of entries stays, and t is valid
\* afterwards also when its old entry had expired.
AddTokenOverwrites ==
    [][\A w \in Workers :
        Answers(w, "adding") =>
            /\ DOMAIN tokens' = DOMAIN tokens \cup {tok[w]}
            /\ tokens'[tok[w]] = now + TTL
            /\ \A x \in DOMAIN tokens \ {tok[w]} : tokens'[x] = tokens[x]
            /\ tok[w] \in DOMAIN tokens =>
                  Cardinality(DOMAIN tokens') = Cardinality(DOMAIN tokens)
            /\ now' <= tokens'[tok[w]]]_vars

\* AddToken is storing a token whose entry has expired and was not
\* evicted, next to an entry of another token.
ExpiredTokenReAdded ==
    \E w \in Workers :
        /\ pc[w] = "adding"
        /\ tok[w] \in DOMAIN tokens
        /\ now > tokens[tok[w]]
        /\ DOMAIN tokens # {tok[w]}

\* C19: RemoveToken(t) leaves no entry for t, whether the entry was
\* valid, expired or missing, and every other entry as it was; when t has
\* no entry the store is unchanged, so a second RemoveToken(t) changes
\* nothing.
RemoveTokenIdempotent ==
    [][\A w \in Workers :
        Answers(w, "removing") =>
            /\ DOMAIN tokens' = DOMAIN tokens \ {tok[w]}
            /\ \A x \in DOMAIN tokens' : tokens'[x] = tokens[x]
            /\ tok[w] \notin DOMAIN tokens => tokens' = tokens]_vars

\* A logout of a token was answered, the token has no entry, and a second
\* RemoveToken of the same token is deleting.
RemovingTwice ==
    \E w \in Workers :
        /\ pc[w] = "removing"
        /\ req[w] = out.req
        /\ out.req.kind = "logout"
        /\ out.status = StatusOK
        /\ tok[w] \in issued
        /\ tok[w] \notin DOMAIN tokens
        /\ DOMAIN tokens # {}

\* C20: no call of AddToken, ValidateToken or RemoveToken ends in an
\* error, a worker that is in no call holds no lock, and no call waits for
\* ever: while a call is under way, a call can take its next step.
StoreOperationsTotal ==
    /\ ~crashed
    /\ \A w \in Workers :
          pc[w] = "idle" => (w \notin mu.readers /\ mu.writer # w)
    /\ (\E w \in Workers : pc[w] # "idle") => ENABLED Advance

\* C21: an entry leaves the store only in the step in which a
\* RemoveToken of its token, or a ValidateToken of its token that found it
\* expired, deletes it; the passage of time and calls for other tokens
\* leave it where it is, expired or not.
EvictionIsLazy ==
    [][\A t \in DOMAIN tokens :
        t \notin DOMAIN tokens' =>
            \E w \in Workers :
                /\ tok[w] = t
                /\ \/ Answers(w, "removing")
                   \/ Answers(w, "deleting") /\ now > tokens[t]]_vars

\* An entry that expired a full period ago is still stored, after another
\* token was added at the present time.
ExpiredStillStored ==
    \E t, u \in DOMAIN tokens :
        /\ t # u
        /\ now >= tokens[t] + TTL
        /\ tokens[u] = now + TTL

\* C23: the expiry of an entry is written only by the AddToken that
\* stores it, as the time of that call plus 24 hours; a ValidateToken that
\* returns true changes no entry and is made no later than the expiry.
ExpiryFixedAtAdd ==
    [][/\ \A t \in DOMAIN tokens' :
            (t \notin DOMAIN tokens \/ tokens'[t] # tokens[t]) =>
                \E w \in Workers :
                    /\ Answers(w, "adding")
                    /\ tok[w] = t
                    /\ tokens'[t] = now + TTL
       /\ \A w \in Workers :
            (LookupEnds(w) /\ pc'[w] = "idle" /\ out'.validated = "valid") =>
                (tokens' = tokens /\ now <= tokens[tok[w]])]_vars

\* A token was accepted at the instant of its expiry, and its entry still
\* has the expiry it was stored with.
AcceptedAtExpiry ==
    /\ out.req.kind = "call"
    /\ out.req.method = "ValidateToken"
    /\ out.validated = "valid"
    /\ now > 0
    /\ out.req.header[1] \in DOMAIN tokens
    /\ tokens[out.req.header[1]] = now

\* C24: an AddToken writes its entry while it alone holds the lock and no
\* other call is at the map, so concurrent AddToken calls for one token
\* write one after the other; each leaves one entry for the token with its
\* own expiry, which is then the expiry of the call that came last.
ConcurrentAddsSerialized ==
    /\ [](\A w \in Workers :
            pc[w] = "adding" =>
                /\ mu.writer = w
                /\ mu.readers = {}
                /\ \A x \in Workers \ {w} : Access(x) = "none")
    /\ [][\A w \in Workers :
            Answers(w, "adding") =>
                /\ tokens'[tok[w]] = now + TTL
                /\ \A x \in Workers \ {w} :
                      (pc[x] = "add" /\ tok[x] = tok[w]) => pc'[x] = "add"]_vars

\* Two AddToken calls for the same token: one holds the lock, the other
\* waits for it.
TwoAddsOfOneToken ==
    \E w, x \in Workers :
        /\ w # x
        /\ pc[w] = "adding"
        /\ pc[x] = "add"
        /\ tok[w] = tok[x]
        /\ tok[w] \in DOMAIN tokens

\* The pairs of the user registry.
Registry == {<<Users[i].username, Users[i].password>> : i \in 1..Len(Users)}

\* C22: the credential check accepts a pair exactly when the registry
\* holds a user with that username and that password, compared byte by
\* byte: an unknown username and a password that differs, in case only or
\* otherwise, are refused.
ValidateUserExactMatch ==
    out.req.kind = "call" =>
        LET u == out.req.body.username
            p == out.req.body.password
        IN  /\ (out.status = StatusOK) <=> (<<u, p>> \in Registry)
            /\ out.status \in {StatusOK, StatusUnauthorized}
            /\ (\A i \in 1..Len(Users) : Users[i].username # u)
                  => out.status = StatusUnauthorized
            /\ (\A i \in 1..Len(Users) : Users[i].password # p)
                  => out.status = StatusUnauthorized

\* The users table refused a password that differs in case only.
CaseDiffersRefused ==
    /\ out.req.kind = "call"
    /\ out.req.method = "UserService.ValidateUser"
    /\ out.req.body.username = "admin"
    /\ out.req.body.password = "Admin123"
    /\ out.status = StatusUnauthorized

\* C28: no rejected request ends the process, and a token that is valid
\* stops being valid only when the clock passes its expiry or a logout
\* removes it: no rejection (a 401 of the middleware, a refused login, a
\* refused logout) takes a valid session away.
AuthFailuresNeverFatal ==
    /\ [](~crashed)
    /\ [][\A t \in DOMAIN tokens :
            (now <= tokens[t] /\ ~(t \in DOMAIN tokens' /\ now' <= tokens'[t])) =>
                \/ now' > now
                \/ \E w \in Workers :
                      /\ Answers(w, "removing")
                      /\ tok[w] = t
                      /\ out'.status = StatusOK]_vars

\* The token part of a header of two parts.
TokenPart(h) == IF Len(h) = 3 THEN h[3] ELSE ""

LoginChecksInOrder ==
    out.req.kind = "login" =>
        LET b == out.req.body
        IN  /\ out.req.method # "POST" =>
                  (out.status = StatusMethodNotAllowed /\ out.msg = "Method not allowed")
            /\ (out.req.method = "POST" /\ ~b.ok) =>
                  (out.status = StatusBadRequest /\ out.msg = "Invalid JSON")
            /\ (out.req.method = "POST" /\ b.ok /\ (b.username = "" \/ b.password = ""))
                  => (out.status = StatusBadRequest
                        /\ out.msg = "Username and password are required")
            /\ (out.msg = "Invalid credentials" \/ out.token # "") =>
                  /\ out.req.method = "POST"
                  /\ b.ok /\ b.username # "" /\ b.password # ""

\* C30, amended: the order is preflight (an OPTIONS login is answered
\* with an empty 200, whatever the body), method (405 for every other
\* method but POST), body, empty field, credentials.
LoginChecksInOrderAfterPreflight ==
    out.req.kind = "login" =>
        LET b == out.req.body
        IN  /\ out.req.method = "OPTIONS" =>
                  (out.status = StatusOK /\ out.msg = "" /\ out.token = "")
            /\ out.req.method \notin {"POST", "OPTIONS"} =>
                  (out.status = StatusMethodNotAllowed /\ out.msg = "Method not allowed")
            /\ (out.req.method = "POST" /\ ~b.ok) =>
                  (out.status = StatusBadRequest /\ out.msg = "Invalid JSON")
            /\ (out.req.method = "POST" /\ b.ok /\ (b.username = "" \/ b.password = ""))
                  => (out.status = StatusBadRequest
                        /\ out.msg = "Username and password are required")
            /\ (out.msg = "Invalid credentials" \/ out.token # "") =>
                  /\ out.req.method = "POST"
                  /\ b.ok /\ b.username # "" /\ b.password # ""

\* A login with an empty username and the password of a registered user
\* was answered 400.
EmptyUsernameRefused ==
    /\ out.req.kind = "login"
    /\ out.req.method = "POST"
    /\ out.req.body.ok
    /\ out.req.body.username = ""
    /\ out.req.body.password = "admin123"
    /\ out.status = StatusBadRequest
    /\ out.msg = "Username and password are required"

FilmAccess(w) ==
    CASE pc[w] = "film_read" -> "read"
      [] pc[w] \in {"film_check", "film_write"} -> "write"
      [] OTHER -> "none"

FilmStoreThreadSafe ==
    \A w \in Workers :
        /\ FilmAccess(w) = "write" =>
              /\ filmStore.mu.writer = w
              /\ filmStore.mu.readers = {}
              /\ \A x \in Workers \ {w} : FilmAccess(x) = "none"
        /\ FilmAccess(w) = "read" =>
              /\ w \in filmStore.mu.readers
              /\ filmStore.mu.writer = NoWorker
        /\ (pc[w] = "film_write" /\ req[w].method \in {"updateFilm", "deleteFilm"}) =>
              req[w].arg \in DOMAIN filmStore.films
        /\ (pc[w] = "film_write" /\ req[w].method = "addFilm") =>
              /\ req[w].film.ID = filmStore.nextID
              /\ filmStore.nextID \notin DOMAIN filmStore.films

\* A deleteFilm is about to write while an updateFilm of the same id
\* waits for the lock.
UpdateWaitsForDelete ==
    \E w \in Workers : \E x \in Workers \ {w} :
        /\ pc[w] = "film_write"
        /\ req[w].method = "deleteFilm"
        /\ pc[x] = "film_call"
        /\ req[x].method = "updateFilm"
        /\ req[x].arg = req[w].arg

\* C31: a header is taken as well-formed, and its token part handed to
\* the TokenStore, only when it is "Bearer", one space and a token: the
\* middleware and a POST logout answer every other header that is present
\* with "Invalid authorization header format", and every call of the
\* TokenStore under way for them carries the token of such a header.
WellFormedIffBearerToken ==
    /\ \A w \in Workers :
          req[w].kind \in {"protected", "logout"} =>
              (BearerToken(req[w].header) /\ tok[w] = req[w].header[3])
    /\ ( /\ \/ out.req.kind = "protected" /\ out.req.method # "OPTIONS"
            \/ out.req.kind = "logout" /\ out.req.method = "POST"
         /\ out.req.header # <<>> ) =>
          IF BearerToken(out.req.header)
              THEN out.msg # "Invalid authorization header format"
              ELSE /\ out.status = StatusUnauthorized
                   /\ out.msg = "Invalid authorization header format"

\* C32: every token in the store, and every token an AddToken under way
\* carries, was returned by GenerateToken in a login; a ValidateToken
\* that returned true, and so every delegation, was for such a token.
StoreHoldsIssuedOnly ==
    /\ DOMAIN tokens \subseteq issued
    /\ \A w \in Workers : pc[w] \in {"add", "adding"} =>
          (tok[w] \in issued /\ req[w].kind = "login")
    /\ (out.validated = "valid" \/ out.delegated) =>
          (BearerToken(out.req.header) /\ out.req.header[3] \in issued)
    /\ out.token # "" => out.token \in issued

\* A request with a token of the client's own making was refused while
\* the store held a valid token of a login.
ForgedTokenRefused ==
    /\ out.req.kind = "protected"
    /\ out.req.header = <<"Bearer", " ", "badtoken">>
    /\ out.validated = "absent"
    /\ Rejected(out)
    /\ \E t \in DOMAIN tokens : Valid(t)

\* The TokenStore method that worker w completes on token t in this step:
\* the write of AddToken, the delete of RemoveToken, or the lookup or the
\* delete of ValidateToken.
Completes(w, t) ==
    /\ tok[w] = t
    /\ pc[w] \in {"adding", "removing", "reading", "deleting"}
    /\ pc'[w] # pc[w]

\* C33: a step that changes whether a token is stored, or its expiry, is
\* the step of an AddToken, RemoveToken or ValidateToken called with that
\* very token; the entries of all other tokens are as they were, and a
\* token that is valid stays valid through the calls made with other
\* tokens.
OtherTokensUntouched ==
    [][\A t \in DOMAIN tokens \cup DOMAIN tokens' :
          \/ t \in DOMAIN tokens /\ t \in DOMAIN tokens' /\ tokens'[t] = tokens[t]
          \/ \E w \in Workers :
                /\ Completes(w, t)
                /\ \A x \in (DOMAIN tokens \cup DOMAIN tokens') \ {t} :
                      /\ x \in DOMAIN tokens /\ x \in DOMAIN tokens'
                      /\ tokens'[x] = tokens[x]]_vars

\* An expired token has just been evicted, or a token removed, while
\* another token is stored and valid.
EvictedBesideValid ==
    /\ out.req.kind = "call"
    /\ out.req.method \in {"ValidateToken", "RemoveToken"}
    /\ out.req.header[1] \notin DOMAIN tokens
    /\ out.validated \in {"expired", "none"}
    /\ \E t \in DOMAIN tokens : t # out.req.header[1] /\ Valid(t)
    /\ now > TTL

\* C34: RemoveToken(t) returns with no entry for t and holds the lock
\* alone, so no token check is in its lookup or its delete at that
\* moment: every check is wholly before or wholly after the removal.  A
\* check that finds no entry returns false and is not delegated, a
\* request is delegated only when its token was stored at the end of its
\* lookup, and no step but the write of an AddToken(t) brings t back.
RevocationUnderConcurrency ==
    [][\A w \in Workers :
        /\ Answers(w, "removing") =>
              /\ tok[w] \notin DOMAIN tokens'
              /\ \A x \in Workers \ {w} : pc[x] \notin {"reading", "deleting"}
        /\ (LookupEnds(w) /\ tok[w] \notin DOMAIN tokens) =>
              (pc'[w] = "idle" /\ out'.validated = "absent" /\ ~out'.delegated)
        /\ (pc[w] \in {"reading", "deleting"} /\ pc'[w] = "idle" /\ out'.delegated) =>
              tok[w] \in DOMAIN tokens
        /\ \A t \in DOMAIN tokens' \ DOMAIN tokens :
              \E a \in Workers : Answers(a, "adding") /\ tok[a] = t]_vars

\* A RemoveToken holds the lock and is about to delete a valid token
\* while the other worker's ValidateToken of the same token waits.
CheckWaitsForRemoval ==
    \E w \in Workers : \E x \in Workers \ {w} :
        /\ pc[x] = "removing"
        /\ Valid(tok[x])
        /\ pc[w] = "validate"
        /\ tok[w] = tok[x]

\* The first statement and the write of a FilmStore method called by w.
FilmChecks(w, op) ==
    pc[w] = "film_check" /\ req[w].method = op /\ pc'[w] # "film_check"

FilmWrites(w, op) ==
    pc[w] = "film_write" /\ req[w].method = op /\ pc'[w] # "film_write"

\* C35: updateFilm(id, f) of an id that is not stored returns not-found
\* and leaves the films and nextID as they were; of a stored id it puts f
\* in the place of the film, with the ID set to id whatever ID f carried,
\* returns that film, and leaves nextID and every other film as they
\* were.
UpdateFilmFrame ==
    [][\A w \in Workers :
        LET id == req[w].arg
            f == req[w].film
        IN  /\ (FilmChecks(w, "updateFilm") /\ id \notin DOMAIN filmStore.films) =>
                  /\ pc'[w] = "idle"
                  /\ out'.req = req[w]
                  /\ out'.status = StatusNotFound
                  /\ out'.films = <<>>
                  /\ filmStore'.films = filmStore.films
                  /\ filmStore'.nextID = filmStore.nextID
            /\ (FilmChecks(w, "updateFilm") /\ id \in DOMAIN filmStore.films) =>
                  /\ pc'[w] = "film_write"
                  /\ filmStore' = filmStore
            /\ FilmWrites(w, "updateFilm") =>
                  /\ id \in DOMAIN filmStore.films
                  /\ DOMAIN filmStore'.films = DOMAIN filmStore.films
                  /\ filmStore'.films[id] =
                        [ID |-> id, Title |-> f.Title, Director |-> f.Director,
                         Year |-> f.Year]
                  /\ \A x \in DOMAIN filmStore.films \ {id} :
                        filmStore'.films[x] = filmStore.films[x]
                  /\ filmStore'.nextID = filmStore.nextID
                  /\ out'.req = req[w]
                  /\ out'.status = StatusOK
                  /\ DOMAIN out'.films = {id}
                  /\ out'.films[id] = filmStore'.films[id]
            /\ (FilmChecks(w, "updateFilm") \/ FilmWrites(w, "updateFilm")) =>
                  /\ updateFilm(filmStore, id, FilmOf(f)).exists
                        = (id \in DOMAIN filmStore.films)
                  /\ pc'[w] = "idle" =>
                        filmStore'.films = updateFilm(filmStore, id, FilmOf(f)).store.films
        ]_vars

\* The last sample film was replaced by a film whose payload carried
\* another ID, and is stored under its own id.
UpdatedKeepsPathID ==
    /\ out.req.method = "updateFilm"
    /\ out.req.arg = Len(SampleFilms)
    /\ out.req.film.ID # out.req.arg
    /\ out.status = StatusOK
    /\ out.req.arg \in DOMAIN filmStore.films
    /\ filmStore.films[out.req.arg].Title = out.req.film.Title
    /\ filmStore.films[out.req.arg].ID = out.req.arg

\* C36: deleteFilm(id) of an id that is not stored returns false and
\* leaves the store as it was; of a stored id it removes that film and no
\* other and leaves nextID as it was.  An id below nextID that is not
\* stored is never stored again, and getFilm, updateFilm and deleteFilm
\* of an id that is not stored report not-found.
DeleteFilmFrame ==
    [][/\ \A w \in Workers :
            LET id == req[w].arg
            IN  /\ ( /\ \/ FilmChecks(w, "deleteFilm")
                        \/ FilmChecks(w, "updateFilm")
                        \/ pc[w] = "film_read" /\ req[w].method = "getFilm"
                                               /\ pc'[w] # "film_read"
                     /\ id \notin DOMAIN filmStore.films ) =>
                      /\ pc'[w] = "idle"
                      /\ out'.req = req[w]
                      /\ out'.status = StatusNotFound
                      /\ out'.films = <<>>
                      /\ filmStore'.films = filmStore.films
                      /\ filmStore'.nextID = filmStore.nextID
                /\ (FilmChecks(w, "deleteFilm") /\ id \in DOMAIN filmStore.films) =>
                      /\ pc'[w] = "film_write"
                      /\ filmStore' = filmStore
                /\ FilmWrites(w, "deleteFilm") =>
                      /\ id \in DOMAIN filmStore.films
                      /\ filmStore'.films =
                            [x \in DOMAIN filmStore.films \ {id} |-> filmStore.films[x]]
                      /\ filmStore'.nextID = filmStore.nextID
                      /\ out'.req = req[w]
                      /\ out'.status = StatusOK
                /\ (FilmChecks(w, "deleteFilm") \/ FilmWrites(w, "deleteFilm")) =>
                      /\ deleteFilm(filmStore, id).exists = (id \in DOMAIN filmStore.films)
                      /\ pc'[w] = "idle" =>
                            filmStore'.films = deleteFilm(filmStore, id).store.films
       /\ \A id \in 1..(filmStore.nextID - 1) :
            id \notin DOMAIN filmStore.films => id \notin DOMAIN filmStore'.films]_vars

\* After the last sample film was deleted and a film was added, which
\* got a new id, getFilm of the deleted id reported not-found.
DeletedStaysGone ==
    /\ out.req.method = "getFilm"
    /\ out.req.arg = Len(SampleFilms)
    /\ out.status = StatusNotFound
    /\ out.req.arg \notin DOMAIN filmStore.films
    /\ NewFilmStore.nextID \in DOMAIN filmStore.films

====
